---- MODULE Spec2Model ----
(***************************************************************************)
(* Model of extract-docx.py: a script that imports python-docx, opens      *)
(* 'API_docs/Spec ETF.docx', writes one line per paragraph and one         *)
(* tab-joined line per table row to 'API_docs/Spec_ETF_extracted.txt',     *)
(* prints a confirmation, and on ImportError prints a remediation hint and *)
(* launches the document with the shell's `start` command.                 *)
(*                                                                         *)
(* Text is modelled as a sequence of one-character strings, so that the    *)
(* joins and the line breaks are computed character by character.  The     *)
(* output file is modelled by the text it holds, as text-mode reading      *)
(* returns it.                                                             *)
(*                                                                         *)
(* The faults modelled are those of the script's own I/O: the import, the  *)
(* opening of the document, the opening of the output file, the writes and *)
(* the close.  Each carries the exception class the call raises, and the   *)
(* except clause is matched against that class.                            *)
(***************************************************************************)
EXTENDS Integers, Sequences, FiniteSets, TLC

\* ---------------------------------------------------------------- bounds
MaxParas == 2
MaxTables == 2
MaxRows == 2
MaxCells == 2
MaxTexts == 3

\* ------------------------------------------------------------ characters
LF == "\n"
TAB == "\t"

\* Texts that para.text / cell.text can return: plain, one holding a tab
\* (a w:tab element) and one holding a line break (a w:br element, or a
\* cell with two paragraphs).
Texts == {<<"a">>, <<"b", TAB, "c">>, <<"d", LF, "e">>}

Min(a, b) == IF a < b THEN a ELSE b

\* ------------------------------------------------------- the input space
\* All sequences of exactly n texts.
TextSeqs(n) == [1..n -> Texts]

RECURSIVE Sum(_)
\* Sum of a sequence of numbers.
Sum(ns) == IF ns = <<>> THEN 0 ELSE Head(ns) + Sum(Tail(ns))

RECURSIVE RowShapes(_, _)
\* The cell counts of exactly k rows holding at most b cells altogether.
RowShapes(k, b) ==
    IF k = 0 THEN {<<>>}
    ELSE UNION { {<<c>> \o rest : rest \in RowShapes(k - 1, b - c)}
                 : c \in 0..Min(MaxCells, b) }

RECURSIVE TableShapes(_, _, _)
\* The row shapes of exactly m tables with at most r rows and b cells
\* altogether.
TableShapes(m, r, b) ==
    IF m = 0 THEN {<<>>}
    ELSE UNION { UNION { {<<t>> \o rest
                           : rest \in TableShapes(m - 1, r - k, b - Sum(t))}
                         : t \in RowShapes(k, b) }
                 : k \in 0..r }

\* The table shapes of a document that has p paragraphs.
Shapes(p) == UNION { TableShapes(m, MaxRows, MaxTexts - p) : m \in 0..MaxTables }

RECURSIVE Cut(_, _)
\* The rows of one table: texts cut into rows of the given cell counts.
Cut(counts, texts) ==
    IF counts = <<>> THEN <<>>
    ELSE <<SubSeq(texts, 1, Head(counts))>>
         \o Cut(Tail(counts), SubSeq(texts, Head(counts) + 1, Len(texts)))

RECURSIVE Build(_, _)
\* The tables of a document: texts cut into tables of the given shapes.
Build(shape, texts) ==
    IF shape = <<>> THEN <<>>
    ELSE <<Cut(Head(shape), SubSeq(texts, 1, Sum(Head(shape))))>>
         \o Build(Tail(shape), SubSeq(texts, Sum(Head(shape)) + 1, Len(texts)))

RECURSIVE CellTotal(_)
\* Number of cells of a table shape list.
CellTotal(shape) ==
    IF shape = <<>> THEN 0 ELSE Sum(Head(shape)) + CellTotal(Tail(shape))

\* doc is one of the documents the library can hand to the script: up to
\* MaxParas paragraphs and MaxTables tables, with up to MaxRows rows and
\* MaxTexts texts in the whole document and MaxCells cells in a row.
IsDocument(d) ==
    \E p \in 0..Min(MaxParas, MaxTexts) :
        \E ps \in TextSeqs(p) :
            \E shape \in Shapes(p) :
                \E cs \in TextSeqs(CellTotal(shape)) :
                    d = [paragraphs |-> ps, tables |-> Build(shape, cs)]

NoDoc == [paragraphs |-> <<>>, tables |-> <<>>]

\* What the output path holds before the first run.
PriorFiles == {[exists |-> FALSE, data |-> <<>>],
               [exists |-> TRUE, data |-> <<"o", "l", "d", LF>>]}

\* ------------------------------------------------------ pure operators
RECURSIVE Join_Reversed(_, _)
\* Variant of Join: the items are joined right to left.
Join_Reversed(items, sep) ==
    IF items = <<>> THEN <<>>
    ELSE IF Len(items) = 1 THEN items[1]
    ELSE Join_Reversed(Tail(items), sep) \o sep \o items[1]

RECURSIVE Join_TrailingSep(_, _)
\* Variant of Join: every item is followed by the separator.
Join_TrailingSep(items, sep) ==
    IF items = <<>> THEN <<>>
    ELSE items[1] \o sep \o Join_TrailingSep(Tail(items), sep)

RECURSIVE Join(_, _)
\* sep.join(items) for a sequence of texts.
Join(items, sep) ==
    IF items = <<>> THEN <<>>
    ELSE IF Len(items) = 1 THEN items[1]
    ELSE items[1] \o sep \o Join(Tail(items), sep)

\* Variant of ParaLine: the line break is left out.
ParaLine_NoBreak(text) == text

\* para.text + '\n'
ParaLine(text) == text \o <<LF>>

\* '\t'.join([cell.text for cell in row.cells]) + '\n'
RowLine(cells) == Join(cells, <<TAB>>) \o <<LF>>

\* Variant of IsImportError: `except Exception`.
IsImportError_Any(e) == TRUE

\* except ImportError: the classes the clause matches.
IsImportError(e) == e \in {"ImportError", "ModuleNotFoundError"}

\* Faults of Document(path) on a path that exists, of open(path, 'w'),
\* of f.write and of the flush that closing the file performs.
DocumentFaults == {"BadZipFile", "PermissionError"}
OpenFaults == {"PermissionError"}
WriteFaults == {"OSError"}
CloseFaults == {"OSError"}

ConfirmMsg == "Extracted ETF spec to Spec_ETF_extracted.txt"
RemediationMsg == "python-docx not installed. Install with: pip install python-docx"
AlternativeMsg == "Alternatively, opening the Word document manually..."

\* Exit statuses of the shell that runs `start <document>`.
LauncherOutcomes == {"exit 0", "exit 1", "not found"}

\* ----------------------------------------------------------------- state
VARIABLES
    doc,            \* the input path's content, as Document() parses it
    docxInstalled,  \* whether `from docx import Document` can succeed
    inputExists,    \* whether the input path exists
    file,           \* the output path: [exists, data]
    before,         \* the output path as it was when the current run began
    rerun,          \* whether this run follows a successful run
    pc,             \* the statement the script is at
    imported,       \* whether the name Document is bound
    exc,            \* the exception that is propagating, or "none"
    handle,         \* the handle f: "none", "open" or "closed"
    i,              \* index of the next paragraph
    ti,             \* index of the current table
    ri,             \* index of the next row of the current table
    writes,         \* the strings passed to f.write, in call order
    stdout,         \* the lines printed
    launcher,       \* the child process of subprocess.run
    app             \* the application `start` opens the document with

vars == <<doc, docxInstalled, inputExists, file, before, rerun,
          pc, imported, exc, handle, i, ti, ri, writes, stdout, launcher, app>>

env == <<doc, docxInstalled, inputExists>>
hist == <<before, rerun>>

Init ==
    /\ docxInstalled \in BOOLEAN
    /\ inputExists \in BOOLEAN
    /\ IF docxInstalled /\ inputExists THEN IsDocument(doc) ELSE doc = NoDoc
    /\ file \in PriorFiles
    /\ before = file
    /\ rerun = FALSE
    /\ pc = "import"
    /\ imported = FALSE
    /\ exc = "none"
    /\ handle = "none"
    /\ i = 1
    /\ ti = 1
    /\ ri = 1
    /\ writes = <<>>
    /\ stdout = <<>>
    /\ launcher = "none"
    /\ app = "none"

\* An exception e leaves the try body: the except clause takes it or the
\* process dies with a traceback.
Raise(e) ==
    IF IsImportError(e)
    THEN pc' = "except" /\ exc' = "none"
    ELSE pc' = "crashed" /\ exc' = e

\* f.write(s)
Write(s) ==
    /\ file' = [file EXCEPT !.data = @ \o s]
    /\ writes' = Append(writes, s)

\* from docx import Document
Import ==
    /\ pc = "import"
    /\ IF docxInstalled
       THEN imported' = TRUE /\ pc' = "document" /\ exc' = exc
       ELSE imported' = imported /\ Raise("ModuleNotFoundError")
    /\ UNCHANGED <<env, hist, file, handle, i, ti, ri, writes, stdout, launcher, app>>

\* Variant of OpenDocument: the output file is opened before the document,
\* so it is already created and truncated when Document() fails.
OpenDocument_OutputFirst ==
    /\ pc = "document"
    /\ IF inputExists
       THEN pc' = "open" /\ exc' = exc /\ file' = file
       ELSE Raise("PackageNotFoundError") /\ file' = [exists |-> TRUE, data |-> <<>>]
    /\ UNCHANGED <<env, hist, imported, handle, i, ti, ri, writes, stdout,
                   launcher, app>>

\* doc = Document('API_docs/Spec ETF.docx')
OpenDocument ==
    /\ pc = "document"
    /\ IF inputExists
       THEN pc' = "open" /\ exc' = exc
       ELSE Raise("PackageNotFoundError")
    /\ UNCHANGED <<env, hist, file, imported, handle, i, ti, ri, writes, stdout,
                   launcher, app>>

\* Document(...) fails on a path that exists (corrupt or unreadable file).
OpenDocumentFault ==
    /\ pc = "document"
    /\ inputExists
    /\ \E e \in DocumentFaults : Raise(e)
    /\ UNCHANGED <<env, hist, file, imported, handle, i, ti, ri, writes, stdout,
                   launcher, app>>

\* Variant of OpenOutput: mode 'a' keeps what the file holds.
OpenOutput_Append ==
    /\ pc = "open"
    /\ file' = [exists |-> TRUE, data |-> file.data]
    /\ handle' = "open"
    /\ pc' = "paras"
    /\ i' = 1
    /\ UNCHANGED <<env, hist, imported, exc, ti, ri, writes, stdout, launcher, app>>

\* with open('API_docs/Spec_ETF_extracted.txt', 'w', encoding='utf-8') as f:
OpenOutput ==
    /\ pc = "open"
    /\ file' = [exists |-> TRUE, data |-> <<>>]
    /\ handle' = "open"
    /\ pc' = "paras"
    /\ i' = 1
    /\ UNCHANGED <<env, hist, imported, exc, ti, ri, writes, stdout, launcher, app>>

\* open(...) fails: nothing is created or truncated.
OpenOutputFault ==
    /\ pc = "open"
    /\ \E e \in OpenFaults : Raise(e)
    /\ UNCHANGED <<env, hist, file, imported, handle, i, ti, ri, writes, stdout,
                   launcher, app>>

\* for para in doc.paragraphs: f.write(para.text + '\n')
WriteParagraph ==
    /\ pc = "paras"
    /\ i <= Len(doc.paragraphs)
    /\ Write(ParaLine(doc.paragraphs[i]))
    /\ i' = i + 1
    /\ UNCHANGED <<env, hist, pc, imported, exc, handle, ti, ri, stdout, launcher, app>>

\* The paragraph loop is exhausted: go on to `for table in doc.tables`.
ParagraphsDone ==
    /\ pc = "paras"
    /\ i > Len(doc.paragraphs)
    /\ pc' = "tables"
    /\ ti' = 1
    /\ ri' = 1
    /\ UNCHANGED <<env, hist, file, imported, exc, handle, i, writes, stdout,
                   launcher, app>>

\* for row in table.rows: f.write('\t'.join([...]) + '\n')
WriteRow ==
    /\ pc = "tables"
    /\ ti <= Len(doc.tables)
    /\ ri <= Len(doc.tables[ti])
    /\ Write(RowLine(doc.tables[ti][ri]))
    /\ ri' = ri + 1
    /\ UNCHANGED <<env, hist, pc, imported, exc, handle, i, ti, stdout, launcher, app>>

\* The row loop of the current table is exhausted: next table.
NextTable ==
    /\ pc = "tables"
    /\ ti <= Len(doc.tables)
    /\ ri > Len(doc.tables[ti])
    /\ ti' = ti + 1
    /\ ri' = 1
    /\ UNCHANGED <<env, hist, file, pc, imported, exc, handle, i, writes, stdout,
                   launcher, app>>

\* The table loop is exhausted: control leaves the with block.
TablesDone ==
    /\ pc = "tables"
    /\ ti > Len(doc.tables)
    /\ pc' = "with_exit"
    /\ UNCHANGED <<env, hist, file, imported, exc, handle, i, ti, ri, writes,
                   stdout, launcher, app>>

\* f.write raises while a paragraph or a row is being written: nothing of
\* that string is stored, and the exception leaves through the with block.
WriteFault ==
    /\ \/ pc = "paras" /\ i <= Len(doc.paragraphs)
       \/ pc = "tables" /\ ti <= Len(doc.tables) /\ ri <= Len(doc.tables[ti])
    /\ \E e \in WriteFaults : exc' = e
    /\ pc' = "with_exit"
    /\ UNCHANGED <<env, hist, file, imported, handle, i, ti, ri, writes, stdout,
                   launcher, app>>

\* Variant of WithExit: no with block, f.close() only at the end of the
\* loops, so an exception leaves f open.
WithExit_Leak ==
    /\ pc = "with_exit"
    /\ handle' = IF exc = "none" THEN "closed" ELSE handle
    /\ IF exc = "none" THEN pc' = "confirm" /\ exc' = exc ELSE Raise(exc)
    /\ UNCHANGED <<env, hist, file, imported, i, ti, ri, writes, stdout, launcher, app>>

\* Variant of WithExit: the exit swallows a pending exception.
WithExit_Suppress ==
    /\ pc = "with_exit"
    /\ handle' = "closed"
    /\ pc' = "confirm"
    /\ exc' = "none"
    /\ UNCHANGED <<env, hist, file, imported, i, ti, ri, writes, stdout, launcher, app>>

\* The with block's exit: f is closed, then a pending exception goes on.
WithExit ==
    /\ pc = "with_exit"
    /\ handle' = "closed"
    /\ IF exc = "none" THEN pc' = "confirm" /\ exc' = exc ELSE Raise(exc)
    /\ UNCHANGED <<env, hist, file, imported, i, ti, ri, writes, stdout, launcher, app>>

\* The flush that close() performs fails: the descriptor is released all
\* the same and the exception propagates.
WithExitFault ==
    /\ pc = "with_exit"
    /\ exc = "none"
    /\ handle' = "closed"
    /\ \E e \in CloseFaults : Raise(e)
    /\ UNCHANGED <<env, hist, file, imported, i, ti, ri, writes, stdout, launcher, app>>

\* print("Extracted ETF spec to Spec_ETF_extracted.txt")
Confirm ==
    /\ pc = "confirm"
    /\ stdout' = Append(stdout, ConfirmMsg)
    /\ pc' = "done"
    /\ UNCHANGED <<env, hist, file, imported, exc, handle, i, ti, ri, writes,
                   launcher, app>>

\* Variant of PrintRemediation: the handler goes on without the message.
PrintRemediation_Missing ==
    /\ pc = "except"
    /\ pc' = "except2"
    /\ UNCHANGED <<env, hist, file, imported, exc, handle, i, ti, ri, writes,
                   stdout, launcher, app>>

\* except ImportError: print("python-docx not installed. ...")
PrintRemediation ==
    /\ pc = "except"
    /\ stdout' = Append(stdout, RemediationMsg)
    /\ pc' = "except2"
    /\ UNCHANGED <<env, hist, file, imported, exc, handle, i, ti, ri, writes,
                   launcher, app>>

\* print("\nAlternatively, opening the Word document manually...")
PrintAlternative ==
    /\ pc = "except2"
    /\ stdout' = Append(stdout, AlternativeMsg)
    /\ pc' = "launch"
    /\ UNCHANGED <<env, hist, file, imported, exc, handle, i, ti, ri, writes,
                   launcher, app>>

\* subprocess.run(['start', ...], shell=True): the child is started.
Launch ==
    /\ pc = "launch"
    /\ launcher' = "running"
    /\ pc' = "wait"
    /\ UNCHANGED <<env, hist, file, imported, exc, handle, i, ti, ri, writes,
                   stdout, app>>

\* The shell command ends with some status; `start` returns as soon as it
\* has handed the document to an application, which then runs on its own.
LauncherExits ==
    /\ launcher = "running"
    /\ launcher' \in LauncherOutcomes
    /\ app' = IF launcher' = "exit 0" THEN "running" ELSE app
    /\ UNCHANGED <<env, hist, file, pc, imported, exc, handle, i, ti, ri, writes,
                   stdout>>

\* The user closes the application.
AppCloses ==
    /\ app = "running"
    /\ app' = "closed"
    /\ UNCHANGED <<env, hist, file, pc, imported, exc, handle, i, ti, ri, writes,
                   stdout, launcher>>

\* Variant of RunReturns: check=True, a non-zero status raises.
RunReturns_Checked ==
    /\ pc = "wait"
    /\ launcher \in LauncherOutcomes
    /\ IF launcher = "exit 0"
       THEN pc' = "done" /\ exc' = exc
       ELSE pc' = "crashed" /\ exc' = "CalledProcessError"
    /\ UNCHANGED <<env, hist, file, imported, handle, i, ti, ri, writes, stdout,
                   launcher, app>>

\* subprocess.run returns once the child has ended; check is False, so the
\* return code raises nothing, and the script ends.
RunReturns ==
    /\ pc = "wait"
    /\ launcher \in LauncherOutcomes
    /\ pc' = "done"
    /\ exc' = exc
    /\ UNCHANGED <<env, hist, file, imported, handle, i, ti, ri, writes, stdout,
                   launcher, app>>

Terminal == pc \in {"done", "crashed"}

\* The run extracted the document and said so.
Succeeded == pc = "done" /\ imported

\* After a successful run the script is started again on the same document
\* and file system.
Rerun ==
    /\ Succeeded
    /\ rerun' = TRUE
    /\ before' = file
    /\ pc' = "import"
    /\ imported' = FALSE
    /\ exc' = "none"
    /\ handle' = "none"
    /\ i' = 1
    /\ ti' = 1
    /\ ri' = 1
    /\ writes' = <<>>
    /\ stdout' = <<>>
    /\ launcher' = "none"
    /\ app' = "none"
    /\ UNCHANGED <<env, file>>

Next ==
    \/ Import
    \/ OpenDocument
    \/ OpenDocumentFault
    \/ OpenOutput
    \/ OpenOutputFault
    \/ WriteParagraph
    \/ ParagraphsDone
    \/ WriteRow
    \/ NextTable
    \/ TablesDone
    \/ WriteFault
    \/ WithExit
    \/ WithExitFault
    \/ Confirm
    \/ PrintRemediation
    \/ PrintAlternative
    \/ Launch
    \/ LauncherExits
    \/ AppCloses
    \/ RunReturns
    \/ Rerun

Spec == Init /\ [][Next]_vars

\* ============================================================ properties
\* Vocabulary of the properties, defined on the document and not on the
\* script's loops.

\* N: the number of paragraphs.
ParaTotal == Len(doc.paragraphs)

RECURSIVE Flatten(_)
\* The concatenation of a sequence of sequences.
Flatten(ss) == IF ss = <<>> THEN <<>> ELSE Head(ss) \o Flatten(Tail(ss))

\* The rows of the document in document order: tables in order, rows top
\* to bottom.
AllRows == Flatten(doc.tables)

RowTotal == Len(AllRows)

RECURSIVE CountChar(_, _)
\* How often the character c occurs in s.
CountChar(s, c) ==
    IF s = <<>> THEN 0
    ELSE (IF Head(s) = c THEN 1 ELSE 0) + CountChar(Tail(s), c)

\* The number of lines of a file: its line terminators.
LineCount(data) == CountChar(data, LF)

\* How often c occurs in the texts of the document.
InTexts(c) ==
    CountChar(Flatten(doc.paragraphs), c) + CountChar(Flatten(Flatten(AllRows)), c)

RECURSIVE CellsLeftToRight(_)
\* A row's cell texts from left to right with one tab between neighbours,
\* built from the right end.
CellsLeftToRight(cells) ==
    IF cells = <<>> THEN <<>>
    ELSE IF Len(cells) = 1 THEN cells[1]
    ELSE CellsLeftToRight(SubSeq(cells, 1, Len(cells) - 1))
         \o <<TAB>> \o cells[Len(cells)]

Printed(msg) == \E k \in 1..Len(stdout) : stdout[k] = msg

\* The writes made so far for table rows are writes[ParaTotal + j].
RowsWritten == IF Len(writes) > ParaTotal THEN Len(writes) - ParaTotal ELSE 0

\* ------------------------------------------------------------------- C1
\* C1 (as stated): after a successful extraction the output file has
\* exactly N + (rows of all tables) lines.
C1_LineCountIsParasPlusRows ==
    Succeeded => LineCount(file.data) = ParaTotal + RowTotal

\* C1 (amended): a successful extraction makes exactly N + R writes, one per
\* paragraph and one per table row, each ending in a line break and nothing
\* else reaches the file; the file has N + R lines plus one line for every
\* line break inside a paragraph or cell text.
C1_WritesAndLines ==
    Succeeded =>
        /\ Len(writes) = ParaTotal + RowTotal
        /\ \A k \in 1..Len(writes) : writes[k][Len(writes[k])] = LF
        /\ file.data = Flatten(writes)
        /\ LineCount(file.data) = ParaTotal + RowTotal + InTexts(LF)

\* A successful run on a document with a paragraph, a table row and a line
\* break inside a text.
C1_Witness ==
    Succeeded /\ ParaTotal >= 1 /\ RowTotal >= 1 /\ InTexts(LF) >= 1

\* ------------------------------------------------------------------- C2
\* C2: after a successful extraction the writes are the paragraph lines in
\* document order followed by the table-row lines in document order, each
\* row's cells left to right, and the file holds them in that order.
C2_DocumentOrder ==
    Succeeded =>
        /\ Len(writes) = ParaTotal + RowTotal
        /\ \A k \in 1..ParaTotal : writes[k] = doc.paragraphs[k] \o <<LF>>
        /\ \A j \in 1..RowTotal :
               writes[ParaTotal + j] = CellsLeftToRight(AllRows[j]) \o <<LF>>
        /\ file.data = Flatten(writes)

\* A successful run on a document with a paragraph and two rows, one of
\* them with two different cells.
C2_Witness ==
    /\ Succeeded
    /\ ParaTotal >= 1
    /\ RowTotal >= 2
    /\ \E j \in 1..RowTotal : Len(AllRows[j]) = 2 /\ AllRows[j][1] # AllRows[j][2]

\* ------------------------------------------------------------------- C3
\* C3: when the library is absent the output file is never opened or
\* created, no exception escapes, and the remediation message is printed
\* before the launcher is invoked.
C3_LibraryAbsent ==
    ~docxInstalled =>
        /\ handle = "none"
        /\ file = before
        /\ writes = <<>>
        /\ pc # "crashed"
        /\ exc = "none"
        /\ (pc \in {"launch", "wait"} \/ launcher # "none"
              => Len(stdout) >= 1 /\ stdout[1] = RemediationMsg)
        /\ (pc = "done" => launcher \in LauncherOutcomes)

\* The library is absent and the script has ended after the launcher ran.
C3_Witness ==
    ~docxInstalled /\ pc = "done" /\ launcher \in LauncherOutcomes /\ ~file.exists

\* ------------------------------------------------------------------- C4
\* C4: the handler (remediation message, fallback launch) runs only when
\* the import itself failed; a fault raised after the import propagates and
\* ends the process without the fallback.
C4_OnlyImportFailureHandled ==
    /\ (pc \in {"except", "except2", "launch", "wait"}
          \/ launcher # "none" \/ Printed(RemediationMsg) \/ Printed(AlternativeMsg))
         => ~imported
    /\ (imported /\ exc # "none") => pc \in {"with_exit", "crashed"}
    /\ pc = "crashed" => (imported /\ exc # "none" /\ launcher = "none")

\* A fault raised by f.write after a line was written has ended the process.
C4_Witness ==
    /\ pc = "crashed"
    /\ imported
    /\ exc \in WriteFaults
    /\ Len(writes) >= 1
    /\ launcher = "none"

\* ------------------------------------------------------------------- C5
\* C5: with the library available and the input path missing, the process
\* ends with an unhandled fault, the output file is never opened (an
\* existing one is unchanged), and neither the confirmation nor the
\* fallback is produced.
C5_MissingInput ==
    (docxInstalled /\ ~inputExists) =>
        /\ handle = "none"
        /\ file = before
        /\ stdout = <<>>
        /\ launcher = "none"
        /\ pc \in {"import", "document", "crashed"}
        /\ (Terminal => pc = "crashed" /\ exc = "PackageNotFoundError")

\* The run has died on the missing input, with an older output file around.
C5_Witness ==
    docxInstalled /\ ~inputExists /\ pc = "crashed" /\ file.exists

\* ------------------------------------------------------------------- C6
\* C6: in every terminal state the output handle is not open, and the
\* handle is closed before the confirmation is printed.
C6_HandleReleased ==
    /\ Terminal => handle # "open"
    /\ (pc = "confirm" \/ Printed(ConfirmMsg)) => handle = "closed"
    /\ (pc = "crashed" /\ writes # <<>>) => handle = "closed"

\* A fault in the middle of the writes has ended the process.
C6_Witness ==
    /\ pc = "crashed"
    /\ handle = "closed"
    /\ Len(writes) >= 1
    /\ Len(writes) < ParaTotal + RowTotal

\* ------------------------------------------------------------------- C7
\* C7 (as stated): every table-row line has exactly (cells in the row) - 1
\* tab characters.
C7_TabsAreCellsMinusOne ==
    LET rows == AllRows
    IN  \A j \in 1..RowsWritten :
            CountChar(writes[ParaTotal + j], TAB) = Len(rows[j]) - 1

\* C7 (amended): every table-row line has one separating tab between
\* neighbouring cells, (cells - 1) of them and none for a row without
\* cells, in addition to the tabs its cell texts contain.
C7_SeparatorTabs ==
    LET rows == AllRows
    IN  \A j \in 1..RowsWritten :
            CountChar(writes[ParaTotal + j], TAB)
              = (IF Len(rows[j]) = 0 THEN 0 ELSE Len(rows[j]) - 1)
                + CountChar(Flatten(rows[j]), TAB)

\* A row of two cells, one of them holding a tab, has been written.
C7_Witness ==
    LET rows == AllRows
    IN  \E j \in 1..RowsWritten :
            Len(rows[j]) = 2 /\ CountChar(Flatten(rows[j]), TAB) = 1

\* ------------------------------------------------------------------- C8
\* C8 (as stated): once the launcher is invoked the tool goes on without
\* waiting for it to finish, and it ends normally whatever the outcome.
C8_NoWaitForLauncher ==
    /\ pc = "wait" => ENABLED RunReturns
    /\ (Terminal /\ launcher # "none") => (pc = "done" /\ exc = "none")

\* C8 (amended): subprocess.run waits for the launcher command to end and
\* then returns whatever its outcome, without inspecting it: the tool ends
\* normally after every outcome, never before the launcher has ended, and
\* without waiting for the application the launcher opened.
C8_WaitsButIgnoresStatus ==
    /\ (pc = "wait" /\ launcher \in LauncherOutcomes) => ENABLED RunReturns
    /\ (pc = "wait" /\ launcher = "running") => ~ENABLED RunReturns
    /\ (Terminal /\ launcher # "none")
         => (pc = "done" /\ exc = "none" /\ launcher \in LauncherOutcomes)
    /\ (pc = "wait" /\ app = "running") => ENABLED RunReturns

\* The tool has ended normally after a launcher that found no command.
C8_Witness ==
    pc = "done" /\ launcher = "not found" /\ exc = "none"

\* ------------------------------------------------------------------- C9
\* C9: a successful run that follows a successful run on the same document
\* leaves the output file exactly as the earlier run left it.
C9_SecondRunSameBytes ==
    (rerun /\ Succeeded) => file = before

\* A second successful run has ended with a non-empty output file.
C9_Witness ==
    rerun /\ Succeeded /\ Len(file.data) >= 2

\* ------------------------------------------------------------------ C10
\* C10: the confirmation is printed only in a run that wrote every
\* paragraph and row line and closed the file without a fault, every such
\* run that has ended has printed it, and it never appears together with
\* the remediation message, the fallback or an uncaught fault.
C10_ConfirmationOnlyOnSuccess ==
    /\ Printed(ConfirmMsg) =>
          /\ pc = "done"
          /\ imported
          /\ exc = "none"
          /\ Len(writes) = ParaTotal + RowTotal
          /\ handle = "closed"
          /\ launcher = "none"
          /\ stdout = <<ConfirmMsg>>
    /\ (Terminal /\ imported /\ exc = "none") => Printed(ConfirmMsg)
    /\ (pc = "crashed" \/ ~imported) => ~Printed(ConfirmMsg)
    /\ ~(Printed(ConfirmMsg) /\ Printed(RemediationMsg))

\* The confirmation is printed after a first run that replaced an older
\* output file with at least two lines.
C10_Witness ==
    Printed(ConfirmMsg) /\ ~rerun /\ before.exists /\ Len(writes) >= 2

====
